---- MODULE Spec2Model ----
(***************************************************************************)
(* Model of the batch copy engine of `algo cp` (src/data/cp.rs):           *)
(* CpClient::upload, CpClient::download and download_file.                 *)
(*                                                                         *)
(* One batch is one call of upload or download.  The threads of a batch    *)
(* are the orchestrator (the calling thread), one producer and             *)
(* min(len(sources), max_concurrency) workers.  They share a bounded       *)
(* chan::sync channel, a chan::WaitGroup and a Mutex<count>.               *)
(*                                                                         *)
(* A path is a sequence of components; joining is concatenation and the    *)
(* base name is the last component.                                        *)
(***************************************************************************)
EXTENDS Integers, Sequences, FiniteSets, TLC

\* ---- bounds of the model -------------------------------------------------
MaxSources == 3
MaxConc == 2

\* ---- paths ---------------------------------------------------------------
\* The destination argument, one component (args.arg_dest).
DestComp == 0
\* A leading directory component of a source path.
DirComp == -1

Dest == <<DestComp>>

\* The i-th source of a batch: odd positions carry a leading directory, and
\* positions 2n-1 and 2n share the file name n.
PathOf(i) == IF i % 2 = 1 THEN <<DirComp, (i + 1) \div 2>> ELSE <<(i + 1) \div 2>>

Basename(p) == <<p[Len(p)]>>

Join(d, p) == d \o p

Min(a, b) == IF a < b THEN a ELSE b

\* ---- the destination argument as text --------------------------------------
\* args.arg_dest is a sequence of tokens: the token "://" and pieces of text
\* that do not contain it (an empty piece is left out).
SepTok == "://"

DestArgs ==
    { <<"x">>,
      <<"file", SepTok, "x">>,
      <<"data", SepTok, "x">>,
      <<SepTok, "x">>,
      <<"data", SepTok, "file", SepTok, "x">> }

HasSep(s) == \E k \in 1..Len(s) : s[k] = SepTok

FirstSep(s) ==
    CHOOSE k \in 1..Len(s) : s[k] = SepTok /\ \A j \in 1..(k - 1) : s[j] # SepTok

\* args.arg_dest.splitn(2, "://").collect()
SplitN2(s) ==
    IF HasSep(s)
    THEN <<SubSeq(s, 1, FirstSep(s) - 1), SubSeq(s, FirstSep(s) + 1, Len(s))>>
    ELSE <<s>>

\* Variant: an empty scheme is taken for a local path, too.
IsDownload_EmptyPrefix(s) ==
    LET dest_parts == SplitN2(s)
    IN Len(dest_parts) < 2 \/ dest_parts[1] = <<"file">> \/ dest_parts[1] = <<>>

\* dest_parts.len() < 2 || dest_parts[0] == "file"
IsDownload(s) ==
    LET dest_parts == SplitN2(s)
    IN Len(dest_parts) < 2 \/ dest_parts[1] = <<"file">>

VARIABLES
    mode,             \* "undecided" until cmd_main dispatches, then "upload" | "download"
    destArg,          \* the destination argument as text (tokens)
    destKind0,        \* what the destination named when the batch started
    sources,          \* the source list handed to upload/download
    max_concurrency,  \* CpClient.max_concurrency (flag -c)
    destKind,         \* what the destination names now: "File" | "Dir" | "None"
    store,            \* objects written so far: target path -> set of items whose bytes it may hold
    pcMain,           \* position of the orchestrator
    spawned,          \* workers spawned so far (loop counter of the spawn loop)
    wg,               \* chan::WaitGroup counter
    pcProd,           \* position of the producer thread
    next,             \* index of the next source the producer sends
    queue,            \* content of the channel, items identified by their position in sources
    pc,               \* position of each worker
    item,             \* the item a worker holds (0: none)
    loc,              \* the location a worker resolved for its item (<<>>: none)
    completed,        \* the shared counter behind the mutex
    mutex,            \* holder of the mutex (0: free)
    deq,              \* history: how often each item was received by a worker
    events,           \* history: the calls made for each item, in order, with their outcome
    target,           \* history: the object each item was written to (<<>>: none yet)
    result,           \* history: outcome of each item's transfer: "none" | "ok" | "err"
    progress,         \* history: progress lines printed for each item (the locations shown)
    summary,          \* <<>> before the summary line, <<n>> once "Finished ... n file(s)" is printed
    errReport,        \* items named by a fatal error report
    exited            \* the process was terminated by the fatal-error path

vars == <<mode, destArg, destKind0, events, target, sources, max_concurrency, destKind, store, pcMain, spawned, wg,
          pcProd, next, queue, pc, item, loc, completed, mutex, deq, result,
          progress, summary, errReport, exited>>

inputVars == <<sources, max_concurrency, destArg, destKind0>>
batchVars == <<mode, inputVars>>
mainVars == <<pcMain, spawned, wg, summary>>
prodVars == <<pcProd, next>>
histVars == <<deq, result, progress, events, target>>

Workers == 1..MaxConc
Items == 1..Len(sources)

\* Variant: the worker count is not clamped by the number of sources.
Concurrency_Unclamped == max_concurrency

\* cmp::min(sources.len(), self.max_concurrency as usize)
Concurrency == Min(Len(sources), max_concurrency)

\* Variant: the channel is unbounded.
Capacity_Unbounded == Len(sources) + 1

\* Variant: a requested capacity of 0 is raised to 1.
Capacity_AtLeastOne == IF max_concurrency = 0 THEN 1 ELSE max_concurrency

\* chan::sync(self.max_concurrency as usize)
Capacity == max_concurrency

Init ==
    /\ mode = "undecided"
    /\ destArg \in DestArgs
    /\ \E k \in 0..MaxSources : sources = [i \in 1..k |-> PathOf(i)]
    /\ max_concurrency \in 0..MaxConc
    /\ destKind \in {"File", "Dir", "None"}
    /\ destKind0 = destKind
    /\ store = <<>>
    /\ pcMain = "cmd_main"
    /\ spawned = 0
    /\ wg = 0
    /\ pcProd = "unspawned"
    /\ next = 1
    /\ queue = <<>>
    /\ pc = [w \in Workers |-> "unspawned"]
    /\ item = [w \in Workers |-> 0]
    /\ loc = [w \in Workers |-> <<>>]
    /\ completed = 0
    /\ mutex = 0
    /\ deq = [i \in Items |-> 0]
    /\ events = [i \in Items |-> <<>>]
    /\ target = [i \in Items |-> <<>>]
    /\ result = [i \in Items |-> "none"]
    /\ progress = [i \in Items |-> <<>>]
    /\ summary = <<>>
    /\ errReport = <<>>
    /\ exited = FALSE

\* ---- orchestrator --------------------------------------------------------

\* Cp::cmd_main: the direction is taken from the destination text, then
\* cp_client.download(..) or cp_client.upload(..) is called
CmdMain ==
    /\ ~exited
    /\ pcMain = "cmd_main"
    /\ mode' = IF IsDownload(destArg) THEN "download" ELSE "upload"
    /\ pcMain' = "spawn_producer"
    /\ UNCHANGED <<inputVars, destKind, store, spawned, wg, prodVars, queue, pc, item,
                   loc, completed, mutex, histVars, summary, errReport, exited>>

\* thread::spawn of the producer closure
SpawnProducer ==
    /\ ~exited
    /\ pcMain = "spawn_producer"
    /\ pcProd' = "send"
    /\ pcMain' = "spawn_workers"
    /\ UNCHANGED <<batchVars, destKind, store, spawned, wg, next, queue, pc, item,
                   loc, completed, mutex, histVars, summary, errReport, exited>>

\* Variant: at least one worker is always spawned.
SpawnWorker_AtLeastOne ==
    /\ ~exited
    /\ pcMain = "spawn_workers"
    /\ spawned < (IF Min(Len(sources), max_concurrency) < 1 THEN 1
                  ELSE Min(Len(sources), max_concurrency))
    /\ wg' = wg + 1
    /\ spawned' = spawned + 1
    /\ pc' = [pc EXCEPT ![spawned + 1] = "recv"]
    /\ UNCHANGED <<batchVars, destKind, store, pcMain, prodVars, queue, item, loc,
                   completed, mutex, histVars, summary, errReport, exited>>

\* one iteration of `for _ in 0..concurrency`: wg.add(1) and thread::spawn
SpawnWorker ==
    /\ ~exited
    /\ pcMain = "spawn_workers"
    /\ spawned < Concurrency
    /\ wg' = wg + 1
    /\ spawned' = spawned + 1
    /\ pc' = [pc EXCEPT ![spawned + 1] = "recv"]
    /\ UNCHANGED <<batchVars, destKind, store, pcMain, prodVars, queue, item, loc,
                   completed, mutex, histVars, summary, errReport, exited>>

\* the spawn loop ends and the orchestrator calls wg.wait()
SpawnLoopEnd ==
    /\ ~exited
    /\ pcMain = "spawn_workers"
    /\ spawned >= Concurrency
    /\ pcMain' = "wait"
    /\ UNCHANGED <<batchVars, destKind, store, spawned, wg, prodVars, queue, pc, item,
                   loc, completed, mutex, histVars, summary, errReport, exited>>

\* Variant: the orchestrator does not block on the wait group.
Wait_NoBarrier ==
    /\ ~exited
    /\ pcMain = "wait"
    /\ pcMain' = "summary"
    /\ UNCHANGED <<batchVars, destKind, store, spawned, wg, prodVars, queue, pc, item,
                   loc, completed, mutex, histVars, summary, errReport, exited>>

\* wg.wait() returns once the counter is zero
Wait ==
    /\ ~exited
    /\ pcMain = "wait"
    /\ wg = 0
    /\ pcMain' = "summary"
    /\ UNCHANGED <<batchVars, destKind, store, spawned, wg, prodVars, queue, pc, item,
                   loc, completed, mutex, histVars, summary, errReport, exited>>

\* println!("Finished ... {} file(s)", *completed.lock().unwrap())
Summary ==
    /\ ~exited
    /\ pcMain = "summary"
    /\ mutex = 0
    /\ summary' = <<completed>>
    /\ pcMain' = "done"
    /\ UNCHANGED <<batchVars, destKind, store, spawned, wg, prodVars, queue, pc, item,
                   loc, completed, mutex, histVars, errReport, exited>>

\* ---- producer ------------------------------------------------------------

\* tx.send(path): blocks while the channel holds Capacity items
Send ==
    /\ ~exited
    /\ pcProd = "send"
    /\ next <= Len(sources)
    /\ Len(queue) < Capacity
    /\ queue' = Append(queue, next)
    /\ next' = next + 1
    /\ UNCHANGED <<batchVars, destKind, store, mainVars, pcProd, pc, item, loc,
                   completed, mutex, histVars, errReport, exited>>

\* drop(tx) after the last send closes the channel
Close ==
    /\ ~exited
    /\ pcProd = "send"
    /\ next > Len(sources)
    /\ pcProd' = "closed"
    /\ UNCHANGED <<batchVars, destKind, store, mainVars, next, queue, pc, item, loc,
                   completed, mutex, histVars, errReport, exited>>

\* ---- workers -------------------------------------------------------------

\* Variant: a receive hands out the head of the channel without removing it.
Recv_NoPop(w) ==
    /\ ~exited
    /\ pc[w] = "recv"
    /\ queue # <<>>
    /\ deq[Head(queue)] < 2
    /\ item' = [item EXCEPT ![w] = Head(queue)]
    /\ queue' = IF deq[Head(queue)] = 0 THEN queue ELSE Tail(queue)
    /\ deq' = [deq EXCEPT ![Head(queue)] = @ + 1]
    /\ pc' = [pc EXCEPT ![w] = IF mode = "upload" THEN "query" ELSE "get"]
    /\ UNCHANGED <<batchVars, destKind, store, mainVars, prodVars, loc, completed,
                   mutex, result, progress, events, target, errReport, exited>>

\* `for rx_path in thread_rx`: receive the head of the channel
Recv(w) ==
    /\ ~exited
    /\ pc[w] = "recv"
    /\ queue # <<>>
    /\ item' = [item EXCEPT ![w] = Head(queue)]
    /\ queue' = Tail(queue)
    /\ deq' = [deq EXCEPT ![Head(queue)] = @ + 1]
    /\ pc' = [pc EXCEPT ![w] = IF mode = "upload" THEN "query" ELSE "get"]
    /\ UNCHANGED <<batchVars, destKind, store, mainVars, prodVars, loc, completed,
                   mutex, result, progress, events, target, errReport, exited>>

\* Variant: a worker stops as soon as it finds the channel empty.
RecvNone_OnEmpty(w) ==
    /\ ~exited
    /\ pc[w] = "recv"
    /\ queue = <<>>
    /\ pc' = [pc EXCEPT ![w] = "done"]
    /\ UNCHANGED <<batchVars, destKind, store, mainVars, prodVars, queue, item, loc,
                   completed, mutex, histVars, errReport, exited>>

\* the iterator ends: the channel is closed and empty
RecvNone(w) ==
    /\ ~exited
    /\ pc[w] = "recv"
    /\ queue = <<>>
    /\ pcProd = "closed"
    /\ pc' = [pc EXCEPT ![w] = "done"]
    /\ UNCHANGED <<batchVars, destKind, store, mainVars, prodVars, queue, item, loc,
                   completed, mutex, histVars, errReport, exited>>

\* thread_wg.done()
Done(w) ==
    /\ ~exited
    /\ pc[w] = "done"
    /\ wg' = wg - 1
    /\ pc' = [pc EXCEPT ![w] = "finished"]
    /\ UNCHANGED <<batchVars, destKind, store, pcMain, spawned, summary, prodVars,
                   queue, item, loc, completed, mutex, histVars, errReport, exited>>

\* Variant: the destination is queried for the first item only and the answer
\* is kept for the items that follow.
Query_Cached(w) ==
    /\ ~exited
    /\ pc[w] = "query"
    /\ LET first == \A i \in Items : events[i] = <<>>
           kind == IF first THEN destKind ELSE destKind0
       IN /\ events' = IF first
                       THEN [events EXCEPT ![item[w]] = Append(@, <<"query", kind>>)]
                       ELSE events
          /\ pc' = [pc EXCEPT ![w] = IF kind = "Dir" THEN "put_dir" ELSE "open"]
    /\ UNCHANGED <<batchVars, destKind, store, mainVars, prodVars, queue, item, loc,
                   completed, mutex, deq, result, progress, target, errReport, exited>>

\* upload: dest_obj.into_type() queries the destination for this item
Query(w) ==
    /\ ~exited
    /\ pc[w] = "query"
    /\ events' = [events EXCEPT ![item[w]] = Append(@, <<"query", destKind>>)]
    /\ pc' = [pc EXCEPT ![w] = IF destKind = "Dir" THEN "put_dir" ELSE "open"]
    /\ UNCHANGED <<batchVars, destKind, store, mainVars, prodVars, queue, item, loc,
                   completed, mutex, deq, result, progress, target, errReport, exited>>

\* upload, destination is a file or does not exist: File::open(&*rx_path).unwrap()
Open(w) ==
    /\ ~exited
    /\ pc[w] = "open"
    /\ \E ok \in BOOLEAN :
          /\ events' = [events EXCEPT ![item[w]] =
                           Append(@, <<"open", IF ok THEN "ok" ELSE "err">>)]
          /\ pc' = [pc EXCEPT ![w] = IF ok THEN "put" ELSE "panicked"]
    /\ UNCHANGED <<batchVars, destKind, store, mainVars, prodVars, queue, item, loc,
                   completed, mutex, deq, result, progress, target, errReport, exited>>

\* Variant: a failed put is skipped and the worker goes on with the next item.
Put_Continue(w) ==
    /\ ~exited
    /\ pc[w] = "put"
    /\ target' = [target EXCEPT ![item[w]] = Dest]
    /\ \E ok \in BOOLEAN :
          IF ok
          THEN /\ store' = [p \in DOMAIN store \cup {Dest} |->
                               IF p = Dest THEN {item[w]} ELSE store[p]]
               /\ destKind' = IF destKind = "None" THEN "File" ELSE destKind
               /\ loc' = [loc EXCEPT ![w] = Dest]
               /\ result' = [result EXCEPT ![item[w]] = "ok"]
               /\ events' = [events EXCEPT ![item[w]] = Append(@, <<"put", "ok">>)]
               /\ pc' = [pc EXCEPT ![w] = "print"]
               /\ UNCHANGED item
          ELSE /\ result' = [result EXCEPT ![item[w]] = "err"]
               /\ events' = [events EXCEPT ![item[w]] = Append(@, <<"put", "err">>)]
               /\ item' = [item EXCEPT ![w] = 0]
               /\ pc' = [pc EXCEPT ![w] = "recv"]
               /\ UNCHANGED <<store, destKind, loc>>
    /\ UNCHANGED <<batchVars, mainVars, prodVars, queue, completed, mutex, deq, progress, errReport, exited>>

\* Variant: the item is put under the destination, named after the item.
Put_ToChild(w) ==
    /\ ~exited
    /\ pc[w] = "put"
    /\ target' = [target EXCEPT ![item[w]] = Join(Dest, Basename(sources[item[w]]))]
    /\ \E ok \in BOOLEAN :
          IF ok
          THEN /\ store' = [p \in DOMAIN store \cup {Join(Dest, Basename(sources[item[w]]))} |->
                               IF p = Join(Dest, Basename(sources[item[w]])) THEN {item[w]} ELSE store[p]]
               /\ destKind' = IF destKind = "None" THEN "File" ELSE destKind
               /\ loc' = [loc EXCEPT ![w] = Join(Dest, Basename(sources[item[w]]))]
               /\ result' = [result EXCEPT ![item[w]] = "ok"]
               /\ events' = [events EXCEPT ![item[w]] = Append(@, <<"put", "ok">>)]
               /\ pc' = [pc EXCEPT ![w] = "print"]
          ELSE /\ result' = [result EXCEPT ![item[w]] = "err"]
               /\ events' = [events EXCEPT ![item[w]] = Append(@, <<"put", "err">>)]
               /\ pc' = [pc EXCEPT ![w] = "fail"]
               /\ UNCHANGED <<store, destKind, loc>>
    /\ UNCHANGED <<batchVars, mainVars, prodVars, queue, item, completed, mutex, deq, progress, errReport, exited>>

\* upload, destination is a file or does not exist: f.put(file).map(|_| f.to_data_uri())
Put(w) ==
    /\ ~exited
    /\ pc[w] = "put"
    /\ target' = [target EXCEPT ![item[w]] = Dest]
    /\ \E ok \in BOOLEAN :
          IF ok
          THEN /\ store' = [p \in DOMAIN store \cup {Dest} |->
                               IF p = Dest THEN {item[w]} ELSE store[p]]
               /\ destKind' = IF destKind = "None" THEN "File" ELSE destKind
               /\ loc' = [loc EXCEPT ![w] = Dest]
               /\ result' = [result EXCEPT ![item[w]] = "ok"]
               /\ events' = [events EXCEPT ![item[w]] = Append(@, <<"put", "ok">>)]
               /\ pc' = [pc EXCEPT ![w] = "print"]
          ELSE /\ result' = [result EXCEPT ![item[w]] = "err"]
               /\ events' = [events EXCEPT ![item[w]] = Append(@, <<"put", "err">>)]
               /\ pc' = [pc EXCEPT ![w] = "fail"]
               /\ UNCHANGED <<store, destKind, loc>>
    /\ UNCHANGED <<batchVars, mainVars, prodVars, queue, item, completed, mutex, deq, progress, errReport, exited>>

\* upload, destination is a directory:
\* d.put_file(&rx_path).map(|_| d.child::<DataFile>(&rx_path).to_data_uri())
\* put_file stores the file under its file name; the reported URI is the child
\* named by the whole source path.
PutDir(w) ==
    /\ ~exited
    /\ pc[w] = "put_dir"
    /\ LET t == Join(Dest, Basename(sources[item[w]]))
       IN /\ target' = [target EXCEPT ![item[w]] = t]
          /\ \E ok \in BOOLEAN :
                IF ok
                THEN /\ store' = [p \in DOMAIN store \cup {t} |->
                                     IF p = t THEN {item[w]} ELSE store[p]]
                     /\ loc' = [loc EXCEPT ![w] = Join(Dest, sources[item[w]])]
                     /\ result' = [result EXCEPT ![item[w]] = "ok"]
                     /\ events' = [events EXCEPT ![item[w]] = Append(@, <<"put_file", "ok">>)]
                     /\ pc' = [pc EXCEPT ![w] = "print"]
                ELSE /\ result' = [result EXCEPT ![item[w]] = "err"]
                     /\ events' = [events EXCEPT ![item[w]] = Append(@, <<"put_file", "err">>)]
                     /\ pc' = [pc EXCEPT ![w] = "fail"]
                     /\ UNCHANGED <<store, loc>>
    /\ UNCHANGED <<batchVars, destKind, mainVars, prodVars, queue, item, completed,
                   mutex, deq, progress, errReport, exited>>

\* Variant: a failed get is skipped and the worker goes on with the next item.
Get_Continue(w) ==
    /\ ~exited
    /\ pc[w] = "get"
    /\ \E ok \in BOOLEAN :
          IF ok
          THEN /\ events' = [events EXCEPT ![item[w]] = Append(@, <<"get", "ok">>)]
               /\ pc' = [pc EXCEPT ![w] = "create"]
               /\ UNCHANGED <<result, item>>
          ELSE /\ result' = [result EXCEPT ![item[w]] = "err"]
               /\ events' = [events EXCEPT ![item[w]] = Append(@, <<"get", "err">>)]
               /\ item' = [item EXCEPT ![w] = 0]
               /\ pc' = [pc EXCEPT ![w] = "recv"]
    /\ UNCHANGED <<batchVars, destKind, store, mainVars, prodVars, queue, loc,
                   completed, mutex, deq, progress, target, errReport, exited>>

\* download_file: data_file.get()
Get(w) ==
    /\ ~exited
    /\ pc[w] = "get"
    /\ \E ok \in BOOLEAN :
          IF ok
          THEN /\ events' = [events EXCEPT ![item[w]] = Append(@, <<"get", "ok">>)]
               /\ pc' = [pc EXCEPT ![w] = "create"]
               /\ UNCHANGED result
          ELSE /\ result' = [result EXCEPT ![item[w]] = "err"]
               /\ events' = [events EXCEPT ![item[w]] = Append(@, <<"get", "err">>)]
               /\ pc' = [pc EXCEPT ![w] = "fail"]
    /\ UNCHANGED <<batchVars, destKind, store, mainVars, prodVars, queue, item, loc,
                   completed, mutex, deq, progress, target, errReport, exited>>

\* Variant: inside a directory the file is named by the whole source path.
Create_FullPath(w) ==
    /\ ~exited
    /\ pc[w] = "create"
    /\ LET full_path == IF destKind = "Dir" THEN Join(Dest, sources[item[w]]) ELSE Dest
       IN /\ target' = [target EXCEPT ![item[w]] = full_path]
          /\ \E ok \in BOOLEAN :
                IF ok
                THEN /\ store' = [p \in DOMAIN store \cup {full_path} |->
                                     IF p = full_path THEN {} ELSE store[p]]
                     /\ loc' = [loc EXCEPT ![w] = full_path]
                     /\ destKind' = IF destKind = "None" THEN "File" ELSE destKind
                     /\ events' = [events EXCEPT ![item[w]] = Append(@, <<"create", "ok">>)]
                     /\ pc' = [pc EXCEPT ![w] = "copy"]
                     /\ UNCHANGED result
                ELSE /\ result' = [result EXCEPT ![item[w]] = "err"]
                     /\ events' = [events EXCEPT ![item[w]] = Append(@, <<"create", "err">>)]
                     /\ pc' = [pc EXCEPT ![w] = "fail"]
                     /\ UNCHANGED <<store, loc, destKind>>
    /\ UNCHANGED <<batchVars, mainVars, prodVars, queue, item, completed, mutex,
                   deq, progress, errReport, exited>>

\* download_file: fs::metadata(local_path) picks the full path, File::create truncates it
Create(w) ==
    /\ ~exited
    /\ pc[w] = "create"
    /\ LET full_path == IF destKind = "Dir" THEN Join(Dest, Basename(sources[item[w]])) ELSE Dest
       IN /\ target' = [target EXCEPT ![item[w]] = full_path]
          /\ \E ok \in BOOLEAN :
                IF ok
                THEN /\ store' = [p \in DOMAIN store \cup {full_path} |->
                                     IF p = full_path THEN {} ELSE store[p]]
                     /\ loc' = [loc EXCEPT ![w] = full_path]
                     /\ destKind' = IF destKind = "None" THEN "File" ELSE destKind
                     /\ events' = [events EXCEPT ![item[w]] = Append(@, <<"create", "ok">>)]
                     /\ pc' = [pc EXCEPT ![w] = "copy"]
                     /\ UNCHANGED result
                ELSE /\ result' = [result EXCEPT ![item[w]] = "err"]
                     /\ events' = [events EXCEPT ![item[w]] = Append(@, <<"create", "err">>)]
                     /\ pc' = [pc EXCEPT ![w] = "fail"]
                     /\ UNCHANGED <<store, loc, destKind>>
    /\ UNCHANGED <<batchVars, mainVars, prodVars, queue, item, completed, mutex,
                   deq, progress, errReport, exited>>

\* Variant: the result of io::copy is ignored and the download counts as done.
Copy_IgnoreError(w) ==
    /\ ~exited
    /\ pc[w] = "copy"
    /\ \E ok \in BOOLEAN :
          IF ok
          THEN /\ \E longer \in (IF store[loc[w]] = {} THEN {FALSE} ELSE BOOLEAN) :
                     store' = [store EXCEPT ![loc[w]] =
                                  {item[w]} \cup (IF longer THEN @ ELSE {})]
               /\ result' = [result EXCEPT ![item[w]] = "ok"]
               /\ events' = [events EXCEPT ![item[w]] = Append(@, <<"copy", "ok">>)]
               /\ pc' = [pc EXCEPT ![w] = "print"]
          ELSE /\ result' = [result EXCEPT ![item[w]] = "err"]
               /\ events' = [events EXCEPT ![item[w]] = Append(@, <<"copy", "err">>)]
               /\ pc' = [pc EXCEPT ![w] = "print"]
               /\ UNCHANGED store
    /\ UNCHANGED <<batchVars, destKind, mainVars, prodVars, queue, item, loc,
                   completed, mutex, deq, progress, target, errReport, exited>>

\* download_file: io::copy(&mut response, &mut output) writes the item's bytes from the
\* start of the file; what another writer left there survives when it was longer
Copy(w) ==
    /\ ~exited
    /\ pc[w] = "copy"
    /\ \E ok \in BOOLEAN :
          IF ok
          THEN /\ \E longer \in (IF store[loc[w]] = {} THEN {FALSE} ELSE BOOLEAN) :
                     store' = [store EXCEPT ![loc[w]] =
                                  {item[w]} \cup (IF longer THEN @ ELSE {})]
               /\ result' = [result EXCEPT ![item[w]] = "ok"]
               /\ events' = [events EXCEPT ![item[w]] = Append(@, <<"copy", "ok">>)]
               /\ pc' = [pc EXCEPT ![w] = "print"]
          ELSE /\ result' = [result EXCEPT ![item[w]] = "err"]
               /\ events' = [events EXCEPT ![item[w]] = Append(@, <<"copy", "err">>)]
               /\ pc' = [pc EXCEPT ![w] = "fail"]
               /\ UNCHANGED store
    /\ UNCHANGED <<batchVars, destKind, mainVars, prodVars, queue, item, loc,
                   completed, mutex, deq, progress, target, errReport, exited>>

\* println!("Uploaded {}", uri) / println!("Downloaded {} ({}B)", rx_path, ..)
PrintProgress(w) ==
    /\ ~exited
    /\ pc[w] = "print"
    /\ progress' = [progress EXCEPT ![item[w]] =
                       Append(@, IF mode = "upload" THEN loc[w] ELSE sources[item[w]])]
    /\ pc' = [pc EXCEPT ![w] = "lock"]
    /\ UNCHANGED <<batchVars, destKind, store, mainVars, prodVars, queue, item, loc,
                   completed, mutex, deq, result, events, target, errReport, exited>>

\* Variant: the counter is reached without taking the mutex.
Lock_NoMutex(w) ==
    /\ ~exited
    /\ pc[w] = "lock"
    /\ pc' = [pc EXCEPT ![w] = "incr"]
    /\ UNCHANGED <<batchVars, destKind, store, mainVars, prodVars, queue, item, loc,
                   completed, mutex, histVars, errReport, exited>>

\* let mut count = thread_completed.lock().unwrap()
Lock(w) ==
    /\ ~exited
    /\ pc[w] = "lock"
    /\ mutex = 0
    /\ mutex' = w
    /\ pc' = [pc EXCEPT ![w] = "incr"]
    /\ UNCHANGED <<batchVars, destKind, store, mainVars, prodVars, queue, item, loc,
                   completed, histVars, errReport, exited>>

\* Variant: the success is not counted.
Increment_Forgot(w) ==
    /\ ~exited
    /\ pc[w] = "incr"
    /\ mutex' = 0
    /\ item' = [item EXCEPT ![w] = 0]
    /\ loc' = [loc EXCEPT ![w] = <<>>]
    /\ pc' = [pc EXCEPT ![w] = "recv"]
    /\ UNCHANGED <<batchVars, destKind, store, mainVars, prodVars, queue, histVars,
                   completed, errReport, exited>>

\* *count += 1; the guard is dropped at the end of the match arm
Increment(w) ==
    /\ ~exited
    /\ pc[w] = "incr"
    /\ completed' = completed + 1
    /\ mutex' = 0
    /\ item' = [item EXCEPT ![w] = 0]
    /\ loc' = [loc EXCEPT ![w] = <<>>]
    /\ pc' = [pc EXCEPT ![w] = "recv"]
    /\ UNCHANGED <<batchVars, destKind, store, mainVars, prodVars, queue, histVars,
                   errReport, exited>>

\* quit_err!/quit_msg!: report the failing item, then terminate the process
Quit(w) ==
    /\ ~exited
    /\ pc[w] = "fail"
    /\ errReport' = Append(errReport, item[w])
    /\ exited' = TRUE
    /\ UNCHANGED <<batchVars, destKind, store, mainVars, prodVars, queue, pc, item,
                   loc, completed, mutex, histVars>>

Worker(w) ==
    \/ Recv(w)
    \/ RecvNone(w)
    \/ Done(w)
    \/ Query(w)
    \/ Open(w)
    \/ Put(w)
    \/ PutDir(w)
    \/ Get(w)
    \/ Create(w)
    \/ Copy(w)
    \/ PrintProgress(w)
    \/ Lock(w)
    \/ Increment(w)
    \/ Quit(w)

Main ==
    \/ CmdMain
    \/ SpawnProducer
    \/ SpawnWorker
    \/ SpawnLoopEnd
    \/ Wait
    \/ Summary

Producer ==
    \/ Send
    \/ Close

Next ==
    \/ Main
    \/ Producer
    \/ \E w \in Workers : Worker(w)

Spec == Init /\ [][Next]_vars

\* Every thread that can take a step eventually takes one.
FairSpec ==
    /\ Spec
    /\ WF_vars(Main)
    /\ WF_vars(Producer)
    /\ \A w \in Workers : WF_vars(Worker(w))

\* ---- derived state ---------------------------------------------------------

SpawnedWorkers == {w \in Workers : pc[w] # "unspawned"}

\* items whose transfer returned Success / Failure
Succeeded == {i \in Items : result[i] = "ok"}
Failed == {i \in Items : result[i] = "err"}

\* items received by a worker whose transfer has not returned yet
InFlight == {i \in Items : deq[i] > 0 /\ result[i] = "none"}

\* workers between a successful transfer and the end of the loop body
Reporting == {w \in Workers : pc[w] \in {"print", "lock", "incr"}}

InQueue(i) == Cardinality({n \in 1..Len(queue) : queue[n] = i})

SummaryPrinted == summary # <<>>

\* what into_type() answered for item i ("unresolved" before the query)
Resolved(i) ==
    IF events[i] # <<>> /\ events[i][1][1] = "query" THEN events[i][1][2] ELSE "unresolved"

\* the calls made for item i that are named c
Calls(i, c) == {n \in 1..Len(events[i]) : events[i][n][1] = c}

\* ---- properties ------------------------------------------------------------

\* C1: the summary line is printed, and the counter read for it, only when
\* every spawned worker has left its receive loop and signalled the wait group.
C1_SummaryAfterWorkers ==
    pcMain \in {"summary", "done"} =>
        /\ wg = 0
        /\ \A w \in SpawnedWorkers : pc[w] = "finished"

C1_Witness ==
    /\ pcMain = "done"
    /\ Cardinality(SpawnedWorkers) = 2
    /\ \A w \in SpawnedWorkers : pc[w] = "finished"
    /\ Len(sources) = 3

\* C2: no item is delivered twice or to two workers; what the workers received
\* is part of what the producer sent, every sent item is either still in the
\* channel or was received once, and a batch that reaches its summary with at
\* least one worker has delivered every source exactly once.
C2_ExclusiveDelivery ==
    /\ \A i \in Items : deq[i] <= 1
    /\ \A i \in Items : deq[i] + InQueue(i) = (IF i < next THEN 1 ELSE 0)
    /\ (SummaryPrinted /\ max_concurrency >= 1) => \A i \in Items : deq[i] = 1

C2_Witness ==
    /\ SummaryPrinted
    /\ Len(sources) = 3
    /\ spawned = 2
    /\ \A i \in Items : deq[i] = 1

\* C3: when wg.wait() has returned, the counter the orchestrator reads equals
\* the number of items whose transfer returned Success.
C3_CountAtWait ==
    /\ pcMain \in {"summary", "done"} => completed = Cardinality(Succeeded)
    /\ SummaryPrinted => summary = <<Cardinality(Succeeded)>>

C3_Witness ==
    /\ pcMain = "summary"
    /\ completed = 3
    /\ Cardinality(Succeeded) = 3

\* C4: the counter never exceeds the number of successful items, every
\* successful item is counted once (it is counted, or its worker is on its way
\* to count it), the counter only changes by +1 and only in a step of the
\* worker holding the mutex, and it never decreases.
C4_CountDiscipline ==
    /\ [](completed <= Cardinality(Succeeded))
    /\ [](completed + Cardinality(Reporting) = Cardinality(Succeeded))
    /\ [][completed' # completed =>
            /\ completed' = completed + 1
            /\ mutex \in Workers
            /\ pc[mutex] = "incr"
            /\ pc'[mutex] # "incr"]_vars

C4_Witness ==
    /\ exited
    /\ completed = 2
    /\ Failed # {}

\* C5: a failed transfer is reported by the worker that saw it and ends the
\* process: the failing worker does nothing but quit, the report names a failed
\* item, after the exit nothing is received, transferred or printed, and a
\* batch with a failed transfer never prints its summary.
C5_FailureIsFatal ==
    /\ [](Failed # {} => ~SummaryPrinted)
    /\ [](exited => /\ Len(errReport) = 1
                    /\ errReport[1] \in Failed)
    /\ [](\A i \in Failed : \E w \in Workers : item[w] = i /\ pc[w] = "fail")
    /\ [][exited => UNCHANGED vars]_vars

C5_Witness ==
    /\ exited
    /\ Failed # {}
    /\ queue # <<>>
    /\ \E w \in Workers : pc[w] = "recv"

\* C6: in upload, a source file that cannot be opened (destination an existing
\* file or non-existent) ends the process through the fatal-error path; the
\* orchestrator is never left blocked on the wait group with nothing able to run.
C6_OpenFailureAborts ==
    ~ /\ \E w \in Workers : pc[w] = "panicked"
      /\ pcMain = "wait"
      /\ ~exited
      /\ ~ENABLED Next

\* C7: with requested concurrency >= 1 and every operation returning, a fairly
\* scheduled batch ends: the summary is printed or the process has exited.
C7_Terminates ==
    (max_concurrency >= 1) => <>(SummaryPrinted \/ exited)

\* C8 as stated: when the batch is over, every successful item has exactly one
\* progress line and every other item has none.
C8_OneLinePerSuccess ==
    (exited \/ SummaryPrinted) =>
        \A i \in Items : Len(progress[i]) = (IF result[i] = "ok" THEN 1 ELSE 0)

\* C8: no item has more than one progress line and only successful items have
\* one; a successful item without its line is held by a worker that is about to
\* print it, so a batch that reaches its summary has one line per success.
C8_ProgressLines ==
    /\ \A i \in Items : Len(progress[i]) <= 1
    /\ \A i \in Items : progress[i] # <<>> => result[i] = "ok"
    /\ \A i \in Succeeded :
          progress[i] = <<>> => \E w \in Workers : item[w] = i /\ pc[w] = "print"
    /\ SummaryPrinted => \A i \in Succeeded : Len(progress[i]) = 1

C8_Witness ==
    /\ exited
    /\ \E i \in Succeeded : Len(progress[i]) = 1
    /\ \E j \in Succeeded : progress[j] = <<>>

\* C9: never more than min(c, k) workers are spawned, exactly that many once
\* the spawn loop has ended, and never more than min(c, k) items are in flight.
C9_WorkerClamp ==
    LET m == IF max_concurrency < Len(sources) THEN max_concurrency ELSE Len(sources)
    IN /\ spawned <= m
       /\ Cardinality(SpawnedWorkers) = spawned
       /\ pcMain \in {"wait", "summary", "done"} => spawned = m
       /\ Cardinality(InFlight) <= m
       /\ \A w \in SpawnedWorkers : pc[w] \in {"recv", "done", "finished"} => item[w] = 0

C9_Witness ==
    /\ pcMain = "wait"
    /\ spawned = 2
    /\ Len(sources) = 3
    /\ Cardinality(InFlight) = 2

\* C10 as stated: with an empty source list the summary reports 0 files and
\* neither a worker nor the producer was spawned.
C10_NothingSpawned ==
    (Len(sources) = 0 /\ SummaryPrinted) =>
        /\ spawned = 0
        /\ pcProd = "unspawned"
        /\ summary = <<0>>

\* C10: with an empty source list no worker is spawned and nothing is sent, the
\* wait group never blocks the orchestrator, and the summary reports 0 files;
\* the producer thread is spawned all the same, before the summary.
C10_EmptyBatch ==
    Len(sources) = 0 =>
        /\ spawned = 0
        /\ SpawnedWorkers = {}
        /\ wg = 0
        /\ queue = <<>>
        /\ SummaryPrinted => (summary = <<0>> /\ pcProd # "unspawned")

C10_Witness ==
    /\ Len(sources) = 0
    /\ summary = <<0>>
    /\ pcProd = "closed"

\* C11 as stated: with a destination that does not exist when the batch starts,
\* every item is resolved in CreateNew mode and written to the literal destination.
C11_AlwaysCreateNew ==
    (mode = "upload" /\ destKind0 = "None") =>
        \A i \in Items : /\ Resolved(i) \in {"unresolved", "None"}
                         /\ target[i] \in {<<>>, <<DestComp>>}

\* C11: with a destination that does not exist when the batch starts, every
\* item is written to the literal destination and to nothing else; it is
\* resolved CreateNew, or Overwrite once another item's put has created the
\* destination, never InsertChild.
C11_CreateNewOrOverwrite ==
    (mode = "upload" /\ destKind0 = "None") =>
        /\ \A i \in Items :
              /\ Resolved(i) \in {"unresolved", "None", "File"}
              /\ target[i] \in {<<>>, <<DestComp>>}
              /\ \A n \in 1..Len(progress[i]) : progress[i][n] = <<DestComp>>
              /\ Resolved(i) = "File" =>
                    \E j \in Items \ {i} : \E n \in 1..Len(events[j]) :
                        events[j][n] = <<"put", "ok">>
        /\ DOMAIN store \subseteq {<<DestComp>>}
        /\ Len(sources) = 1 => Resolved(1) \in {"unresolved", "None"}

C11_Witness ==
    /\ mode = "upload"
    /\ destKind0 = "None"
    /\ \E i \in Succeeded : Resolved(i) = "None"
    /\ \E j \in Succeeded : Resolved(j) = "File"

\* C12: with a destination that is an existing remote directory, the target an
\* item is written to and the target its progress line reports are both
\* destination/basename(item), and two items share a target only if they share
\* a base name.
C12_DirTargets ==
    mode = "upload" =>
        /\ \A i \in Items : Resolved(i) = "Dir" =>
              /\ target[i] \in {<<>>, <<DestComp, sources[i][Len(sources[i])]>>}
              /\ \A n \in 1..Len(progress[i]) :
                    progress[i][n] = <<DestComp, sources[i][Len(sources[i])]>>
        /\ \A i, j \in Items :
              (Resolved(i) = "Dir" /\ Resolved(j) = "Dir" /\ target[i] # <<>>
                 /\ target[i] = target[j])
              => sources[i][Len(sources[i])] = sources[j][Len(sources[j])]

\* C13: in download, the local target of an item is destination/basename(item)
\* when the destination is a local directory and the literal destination
\* otherwise, and it is resolved only after the item's get has succeeded.
C13_LocalTarget ==
    mode = "download" =>
        \A i \in Items : target[i] # <<>> =>
            /\ target[i] = (IF destKind = "Dir"
                            THEN <<DestComp, sources[i][Len(sources[i])]>>
                            ELSE <<DestComp>>)
            /\ events[i][1] = <<"get", "ok">>
            /\ Calls(i, "get") = {1}

C13_Witness ==
    /\ mode = "download"
    /\ destKind0 = "Dir"
    /\ Len(sources) >= 1
    /\ result[1] = "ok"
    /\ target[1] = <<DestComp, 1>>
    /\ DOMAIN store = {<<DestComp, 1>>}

\* C14: the direction is decided once, before the producer or any worker
\* starts, never changes afterwards and governs every item: download when the
\* destination has no "://" or the text before its first "://" is exactly
\* "file", upload otherwise.
C14_DirectionOnce ==
    /\ [](mode # "undecided" =>
            mode = (IF \/ \A k \in 1..Len(destArg) : destArg[k] # "://"
                       \/ (Len(destArg) >= 2 /\ destArg[1] = "file" /\ destArg[2] = "://")
                    THEN "download" ELSE "upload"))
    /\ [](mode = "undecided" => (pcProd = "unspawned" /\ SpawnedWorkers = {}))
    /\ [][mode # "undecided" => mode' = mode]_vars
    /\ [](\A i \in Items : \A n \in 1..Len(events[i]) :
            events[i][n][1] \in (IF mode = "upload"
                                 THEN {"query", "open", "put", "put_file"}
                                 ELSE {"get", "create", "copy"}))

C14_Witness ==
    /\ mode = "upload"
    /\ destArg = <<"://", "x">>
    /\ Cardinality(Succeeded) = 2
    /\ SummaryPrinted

\* C15: when several sources go to one destination that is not a directory,
\* a finished batch has written every item to the literal destination and to
\* nothing else, the destination holds the content of exactly one source, and
\* the summary counts every item.
C15_LastWriterWins ==
    (SummaryPrinted /\ destKind0 # "Dir" /\ Len(sources) >= 2 /\ max_concurrency >= 1) =>
        /\ \A i \in Items : target[i] = <<DestComp>>
        /\ DOMAIN store = {<<DestComp>>}
        /\ \E i \in Items : store[<<DestComp>>] = {i}
        /\ summary = <<Len(sources)>>

\* C16: a worker has left its receive loop (and signalled the wait group) only
\* when the producer has sent every source and closed the channel and the
\* channel is empty; the producer closes only after its last send.
C16_LeaveOnlyOnClose ==
    /\ \A w \in Workers : pc[w] \in {"done", "finished"} =>
          /\ pcProd = "closed"
          /\ queue = <<>>
          /\ \A i \in Items : deq[i] = 1
    /\ pcProd = "closed" => next = Len(sources) + 1

C16_Witness ==
    /\ \E w \in Workers : pc[w] = "done"
    /\ \E w \in Workers : pc[w] \in {"put", "copy"}
    /\ Len(sources) = 3

\* C17 as stated: the channel's capacity is the clamped concurrency
\* min(c, len(sources)), the channel never holds more, and the producer cannot
\* send while it is full.
C17_CapacityIsClamped ==
    LET m == IF max_concurrency < Len(sources) THEN max_concurrency ELSE Len(sources)
    IN pcProd # "unspawned" =>
          /\ Capacity = m
          /\ Len(queue) <= m
          /\ (pcProd = "send" /\ next <= Len(sources) /\ Len(queue) = m) => ~ENABLED Send

\* C17: the channel's capacity is the requested concurrency c; it never holds
\* more than min(c, len(sources)) items, and a producer with items left can
\* send exactly when the channel holds fewer than c items.
C17_QueueBound ==
    LET m == IF max_concurrency < Len(sources) THEN max_concurrency ELSE Len(sources)
    IN /\ Len(queue) <= m
       /\ (pcProd = "send" /\ next <= Len(sources) /\ ~exited) =>
             (ENABLED Send <=> Len(queue) < max_concurrency)

C17_Witness ==
    /\ pcProd = "send"
    /\ next <= Len(sources)
    /\ max_concurrency = 2
    /\ Len(queue) = 2
    /\ ~exited

\* C18: in upload, each received item gets exactly one query of the
\* destination, before anything else is done for it; an item whose query found
\* an existing file is written to the destination itself, whatever its name.
C18_QueryOncePerItem ==
    mode = "upload" =>
        /\ \A i \in Items : events[i] # <<>> => Calls(i, "query") = {1}
        /\ \A w \in Workers :
              (item[w] # 0 /\ pc[w] # "query") => Calls(item[w], "query") = {1}
        /\ \A i \in Items : Resolved(i) = "File" =>
              /\ target[i] \in {<<>>, <<DestComp>>}
              /\ \A n \in 1..Len(progress[i]) : progress[i][n] = <<DestComp>>
              /\ Calls(i, "put_file") = {}

C18_Witness ==
    /\ mode = "upload"
    /\ destKind0 = "File"
    /\ Len(sources) >= 1
    /\ Resolved(1) = "File"
    /\ result[1] = "ok"
    /\ DOMAIN store = {<<DestComp>>}
    /\ store[<<DestComp>>] = {1}

\* C19: with requested concurrency >= 1, a printed summary means that no
\* transfer failed, every source was received and transferred successfully,
\* and the reported count is len(sources).
C19_SummaryMeansAll ==
    (max_concurrency >= 1 /\ SummaryPrinted) =>
        /\ Failed = {}
        /\ \A w \in Workers : pc[w] \notin {"fail", "panicked"}
        /\ \A i \in Items : deq[i] = 1 /\ result[i] = "ok"
        /\ summary = <<Len(sources)>>

C19_Witness ==
    /\ SummaryPrinted
    /\ max_concurrency = 1
    /\ Len(sources) = 3
    /\ summary = <<3>>

\* C20: with requested concurrency 0 and a non-empty source list no worker is
\* spawned, the producer never gets past its first send, nothing is
\* transferred, and the orchestrator is not held at the wait group and prints
\* a summary of 0 files without any error.
C20_ZeroConcurrency ==
    (max_concurrency = 0 /\ Len(sources) > 0) =>
        /\ spawned = 0
        /\ SpawnedWorkers = {}
        /\ wg = 0
        /\ queue = <<>>
        /\ next = 1
        /\ pcProd \in {"unspawned", "send"}
        /\ pcProd = "send" => ~ENABLED Send /\ ~ENABLED Close
        /\ \A i \in Items : deq[i] = 0 /\ result[i] = "none" /\ events[i] = <<>>
        /\ store = <<>>
        /\ ~exited
        /\ errReport = <<>>
        /\ pcMain = "wait" => ENABLED Wait
        /\ SummaryPrinted => summary = <<0>>

C20_Witness ==
    /\ max_concurrency = 0
    /\ Len(sources) = 3
    /\ summary = <<0>>
    /\ pcProd = "send"
====
